---- MODULE Spec2Model ----
(***************************************************************************)
(* Model of DataUploadComponent (src/app/data-upload/                      *)
(* data-upload.component.ts): the upload queue, the per-file requests of   *)
(* the HTTP transport with their callbacks, the shared isUploading flag    *)
(* and the alert with its fire-and-forget 5000 ms timers.                  *)
(*                                                                         *)
(* A record of the queue is a JavaScript object: it is modelled by an      *)
(* identity (a number) and its fields live in objects[id], so that a       *)
(* closure holding the object still reaches it after removeFile has        *)
(* spliced it out of uploadedFiles.                                        *)
(***************************************************************************)
EXTENDS Integers, Sequences, FiniteSets, TLC

VARIABLES
    uploadedFiles,  \* the queue: sequence of object identities (1-based index)
    objects,        \* identity -> UploadedFile {file, progress, status, error}
    requests,       \* subscriptions of http.post that have not ended yet
    submitted,      \* number of http.post calls made so far
    isUploading,    \* the shared flag
    alertMessage,   \* '' is <<>>; a message is the sequence of its parts
    alertType,      \* '' or 'alert-<type>'
    timers,         \* pending setTimeout callbacks: remaining ms, oldest first
    alertAge,       \* ms since the latest showAlert call, saturated at AlertDelay
    thrown,         \* a handler raised a TypeError
    probe           \* a file handed to isValidFile alone, and the answer

vars == <<uploadedFiles, objects, requests, submitted, isUploading, alertMessage,
          alertType, timers, alertAge, thrown, probe>>

----------------------------------------------------------------------------
(* Bounds of the model *)

MaxRecords == 2     \* UploadedFile objects ever created by addFiles
MaxRequests == 2    \* http.post calls ever made
MaxTimers == 2      \* setTimeout callbacks pending at once

(* Program constants *)

AlertDelay == 5000
maxSize == 200 * 1024 * 1024
validExtensions == << <<".", "x", "m", "l">>, <<".", "d", "a", "t">>,
                      <<".", "n", "r", "s">> >>

----------------------------------------------------------------------------
(* Optional values: undefined is <<>>, a present value v is <<v>> *)

Undefined == <<>>
Some(v) == <<v>>

(* Strings that the code inspects are sequences of one-character strings *)

UpperCase == <<"A","B","C","D","E","F","G","H","I","J","K","L","M",
               "N","O","P","Q","R","S","T","U","V","W","X","Y","Z">>
LowerCase == <<"a","b","c","d","e","f","g","h","i","j","k","l","m",
               "n","o","p","q","r","s","t","u","v","w","x","y","z">>

\* the lower-case letter of every upper-case letter
lowerOf ==
    [c \in {UpperCase[i] : i \in 1..Len(UpperCase)} |->
        LowerCase[CHOOSE i \in 1..Len(UpperCase) : UpperCase[i] = c]]

toLowerCaseChar(c) == IF c \in DOMAIN lowerOf THEN lowerOf[c] ELSE c

toLowerCase(s) == [i \in 1..Len(s) |-> toLowerCaseChar(s[i])]

endsWith(s, suffix) ==
    /\ Len(suffix) <= Len(s)
    /\ SubSeq(s, Len(s) - Len(suffix) + 1, Len(s)) = suffix

----------------------------------------------------------------------------
(* isValidFile, lines 75-84 *)

hasValidExtension(file) ==
    \E k \in 1..Len(validExtensions) :
        endsWith(toLowerCase(file.name), validExtensions[k])

\* the boundary left out
SizeBelowMax(size) == size < maxSize

SizeAccepted(size) == size <= maxSize

isValidFile(file) == hasValidExtension(file) /\ SizeAccepted(file.size)

----------------------------------------------------------------------------
(* Inputs *)

FileA == [name |-> <<"a", ".", "x", "m", "l">>, size |-> 10]
FileB == [name |-> <<"B", ".", "D", "A", "T">>, size |-> maxSize]
FileExe == [name |-> <<"c", ".", "e", "x", "e">>, size |-> 10]

CandidateFiles == {FileA, FileB, FileExe}

\* what a drop or a file selection hands to addFiles
CandidateLists ==
    {<<>>} \cup {<<f>> : f \in CandidateFiles}
           \cup {<<f, g>> : f \in CandidateFiles, g \in CandidateFiles}

\* HttpEventType.Sent, UploadProgress (loaded, optional total), Response
SentEvent == [type |-> "Sent"]
ResponseEvent == [type |-> "Response"]
ProgressEvents ==
    { [type |-> "UploadProgress", loaded |-> 0, total |-> Some(0)],
      [type |-> "UploadProgress", loaded |-> 199, total |-> Some(200)],
      [type |-> "UploadProgress", loaded |-> 8, total |-> Some(8)],
      [type |-> "UploadProgress", loaded |-> 2, total |-> Undefined] }
HttpEvents == {SentEvent, ResponseEvent} \cup ProgressEvents

\* the error object of the transport: message may be absent or empty
HttpErrors == { [message |-> Undefined], [message |-> Some("")],
                [message |-> Some("Http failure response")] }

TickSteps == {2500}

----------------------------------------------------------------------------
(* showAlert, lines 145-153, on the alert part of the state *)

AlertState == [alertMessage |-> alertMessage, alertType |-> alertType,
               timers |-> timers, alertAge |-> alertAge]

\* the alert set with no timer to clear it
showAlertForever(A, message, type) ==
    [alertMessage |-> message,
     alertType |-> "alert-" \o type,
     timers |-> A.timers,
     alertAge |-> 0]

showAlert(A, message, type) ==
    [alertMessage |-> message,
     alertType |-> "alert-" \o type,
     timers |-> Append(A.timers, AlertDelay),
     alertAge |-> 0]

SetAlert(A) ==
    /\ alertMessage' = A.alertMessage
    /\ alertType' = A.alertType
    /\ timers' = A.timers
    /\ alertAge' = A.alertAge

\* room for one more setTimeout callback
TimerRoom == Len(timers) < MaxTimers

SkippedMessage == <<"Some files were skipped due to invalid format or size">>

\* the success alert without the file name
SuccessMessageUnnamed(file) == <<"File uploaded successfully!">>

SuccessMessage(file) == <<"File ", file.name, " uploaded successfully!">>
FailureMessage(file, error) == <<"Failed to upload ", file.name, ": ", error>>

----------------------------------------------------------------------------
Init ==
    /\ uploadedFiles = <<>>
    /\ objects = <<>>
    /\ requests = {}
    /\ submitted = 0
    /\ isUploading = FALSE
    /\ alertMessage = <<>>
    /\ alertType = ""
    /\ timers = <<>>
    /\ alertAge = AlertDelay
    /\ thrown = FALSE
    /\ probe = Undefined

(* addFiles, lines 59-73 *)

NewRecord(file) ==
    [file |-> file, progress |-> 0, status |-> "pending", error |-> Undefined]

\* the valid candidates put in front of one another (unshift for push)
validFilesReversed(files) ==
    LET valid == SelectSeq(files, isValidFile)
    IN  [k \in 1..Len(valid) |-> valid[Len(valid) + 1 - k]]

\* line 60: files.filter(file => this.isValidFile(file))
validFiles(files) == SelectSeq(files, isValidFile)

\* the alert raised only when no candidate at all was accepted
nothingAccepted(files, valid) == Len(valid) = 0 /\ Len(files) # 0

\* line 62: validFiles.length !== files.length
someSkipped(files, valid) == Len(valid) # Len(files)

addFiles(files) ==
    LET valid == validFiles(files)
        skipped == someSkipped(files, valid)
        n == Len(objects)
    IN  /\ UNCHANGED <<requests, submitted, isUploading, thrown, probe>>
        /\ n + Len(valid) <= MaxRecords
        /\ skipped => TimerRoom
        /\ SetAlert(IF skipped
                    THEN showAlert(AlertState, SkippedMessage, "error")
                    ELSE AlertState)
        /\ objects' = objects \o [k \in 1..Len(valid) |-> NewRecord(valid[k])]
        /\ uploadedFiles' = uploadedFiles \o [k \in 1..Len(valid) |-> n + k]

----------------------------------------------------------------------------
(* uploadFile, lines 94-127: the synchronous part, on the part of the     *)
(* state it touches, so that uploadAllFiles can call it in a loop         *)

UploadState == [objects |-> objects, requests |-> requests,
                submitted |-> submitted, isUploading |-> isUploading]

\* the guard of line 96 left out
AlreadyUploadingNever(fileItem) == FALSE

\* line 96: if (fileItem.status === 'uploading') return;
AlreadyUploading(fileItem) == fileItem.status = "uploading"

\* lines 105-108: the subscription closes over fileItem (the object) and index
NewRequest(U, item, index) ==
    [id |-> U.submitted + 1, fileItem |-> item, index |-> index]

uploadFileCall(U, queue, index) ==
    LET item == queue[index]
    IN  IF AlreadyUploading(U.objects[item])
        THEN U
        ELSE [objects |-> [U.objects EXCEPT ![item].status = "uploading"],
              requests |-> U.requests \cup {NewRequest(U, item, index)},
              submitted |-> U.submitted + 1,
              isUploading |-> TRUE]

SetUpload(U) ==
    /\ U.submitted <= MaxRequests
    /\ objects' = U.objects
    /\ requests' = U.requests
    /\ submitted' = U.submitted
    /\ isUploading' = U.isUploading

uploadFile(index) ==
    /\ SetUpload(uploadFileCall(UploadState, uploadedFiles, index))
    /\ UNCHANGED <<uploadedFiles, alertMessage, alertType, timers, alertAge, thrown, probe>>

(* uploadAllFiles, lines 129-135 *)

IsPending(f) == f.status = "pending"

\* line 130: the records that are pending now, in queue order
pendingFiles(U, queue) ==
    SelectSeq(queue, LAMBDA item : IsPending(U.objects[item]))

\* the position in pendingFiles taken for the position in the queue
positionInPending(queue, pending, index) == index

\* line 132: findIndex(f => f === pendingFiles[index])
originalIndex(queue, pending, index) ==
    CHOOSE i \in 1..Len(queue) :
        /\ queue[i] = pending[index]
        /\ \A j \in 1..(i - 1) : queue[j] # pending[index]

RECURSIVE uploadEach(_, _, _, _)
uploadEach(U, queue, pending, index) ==
    IF index > Len(pending)
    THEN U
    ELSE uploadEach(uploadFileCall(U, queue, originalIndex(queue, pending, index)),
                    queue, pending, index + 1)

uploadAllFiles ==
    /\ SetUpload(uploadEach(UploadState, uploadedFiles,
                            pendingFiles(UploadState, uploadedFiles), 1))
    /\ UNCHANGED <<uploadedFiles, alertMessage, alertType, timers, alertAge, thrown, probe>>

(* hasPendingFiles, lines 141-143 *)

hasPendingFiles ==
    \E i \in 1..Len(uploadedFiles) : IsPending(objects[uploadedFiles[i]])

(* removeFile, lines 137-139: splice(index, 1) *)

\* splice(index) with no delete count: everything from index on is removed
spliceToEnd(queue, index) == SubSeq(queue, 1, index - 1)

splice(queue, index) ==
    SubSeq(queue, 1, index - 1) \o SubSeq(queue, index + 1, Len(queue))

removeFile(index) ==
    /\ uploadedFiles' = splice(uploadedFiles, index)
    /\ UNCHANGED <<objects, requests, submitted, isUploading, alertMessage,
                   alertType, timers, alertAge, thrown, probe>>

----------------------------------------------------------------------------
(* The subscribe callbacks, lines 109-125 *)

NoObject == 0

\* the callback looking its record up again by the index of the call
TargetByIndex(r) ==
    IF r.index \in 1..Len(uploadedFiles) THEN uploadedFiles[r.index] ELSE NoObject

\* the record a callback writes to: the closure variable fileItem of line 95
Target(r) == r.fileItem

\* Math.round of num / den for num >= 0, den > 0
round(num, den) == (2 * num + den) \div (2 * den)

\* line 111: Math.round(100 * event.loaded / (event.total || 1))
progressOf(event) ==
    LET total == IF event.total = Undefined \/ event.total = Some(0)
                 THEN 1 ELSE event.total[1]
    IN  round(100 * event.loaded, total)

\* the transport's message ignored
errorTextFixed(err) == "Upload failed"

\* line 122: error.message || 'Upload failed'
errorText(err) ==
    IF err.message = Undefined \/ err.message = Some("")
    THEN "Upload failed" ELSE err.message[1]

\* line 115 left out
onResponseStatusOnly(fileItem) == [fileItem EXCEPT !.status = "success"]

\* lines 114-115
onResponse(fileItem) == [fileItem EXCEPT !.status = "success", !.progress = 100]

\* a failed record put back to 'pending'
onErrorRequeue(fileItem, err) ==
    [fileItem EXCEPT !.status = "pending", !.error = Some(errorText(err))]

\* the error callback recording the message and leaving the status
onErrorMessageOnly(fileItem, err) ==
    [fileItem EXCEPT !.error = Some(errorText(err))]

\* lines 121-122
onError(fileItem, err) ==
    [fileItem EXCEPT !.status = "error", !.error = Some(errorText(err))]

\* the flag kept up while another request is in flight
flagWhileOthers(others) == others # {}

\* the flag left as it was by the terminal event
flagKept(others) == TRUE

\* lines 116 and 123: this.isUploading = false, whatever else is in flight
flagAfterTerminal(others) == FALSE

next(r, event) ==
    LET item == Target(r)
    IN  /\ r \in requests
        /\ UNCHANGED <<uploadedFiles, submitted, probe>>
        /\ IF event.type \notin {"UploadProgress", "Response"}
           THEN UNCHANGED <<objects, requests, isUploading, alertMessage,
                            alertType, timers, alertAge, thrown>>
           ELSE IF item = NoObject
           THEN /\ thrown' = TRUE
                /\ requests' = requests \ {r}
                /\ UNCHANGED <<objects, isUploading, alertMessage, alertType,
                               timers, alertAge>>
           ELSE IF event.type = "UploadProgress"
           THEN /\ objects' = [objects EXCEPT ![item].progress = progressOf(event)]
                /\ UNCHANGED <<requests, isUploading, alertMessage, alertType,
                               timers, alertAge, thrown>>
           ELSE /\ TimerRoom
                /\ objects' = [objects EXCEPT ![item] = onResponse(@)]
                /\ isUploading' = flagAfterTerminal(requests \ {r})
                /\ SetAlert(showAlert(AlertState,
                                      SuccessMessage(objects[item].file), "success"))
                /\ requests' = requests \ {r}
                /\ UNCHANGED thrown

error(r, err) ==
    LET item == Target(r)
    IN  /\ r \in requests
        /\ requests' = requests \ {r}
        /\ UNCHANGED <<uploadedFiles, submitted, probe>>
        /\ IF item = NoObject
           THEN /\ thrown' = TRUE
                /\ UNCHANGED <<objects, isUploading, alertMessage, alertType,
                               timers, alertAge>>
           ELSE /\ TimerRoom
                /\ objects' = [objects EXCEPT ![item] = onError(@, err)]
                /\ isUploading' = flagAfterTerminal(requests \ {r})
                /\ SetAlert(showAlert(AlertState,
                        FailureMessage(objects[item].file, errorText(err)), "error"))
                /\ UNCHANGED thrown

----------------------------------------------------------------------------
(* Time: setTimeout callbacks run when their delay has elapsed, in order *)

\* d ms pass, or less when a timer is due sooner; with no timer pending the
\* passing of time changes nothing
Tick(d) ==
    LET step == IF Head(timers) < d THEN Head(timers) ELSE d
    IN  /\ timers # <<>>
        /\ Head(timers) > 0
        /\ timers' = [k \in 1..Len(timers) |-> timers[k] - step]
        /\ alertAge' = IF alertAge + step > AlertDelay
                       THEN AlertDelay ELSE alertAge + step
        /\ UNCHANGED <<uploadedFiles, objects, requests, submitted, isUploading,
                       alertMessage, alertType, thrown, probe>>

\* lines 149-152: the callback of the oldest timer, once it is due
alertTimeout ==
    /\ timers # <<>>
    /\ Head(timers) = 0
    /\ alertMessage' = <<>>
    /\ alertType' = ""
    /\ timers' = Tail(timers)
    /\ UNCHANGED <<uploadedFiles, objects, requests, submitted, isUploading,
                   alertAge, thrown, probe>>

----------------------------------------------------------------------------
Next ==
    \/ \E files \in CandidateLists : addFiles(files)
    \/ \E index \in 1..Len(uploadedFiles) : uploadFile(index)
    \/ uploadAllFiles
    \/ \E index \in 1..Len(uploadedFiles) : removeFile(index)
    \/ \E r \in requests, event \in HttpEvents : next(r, event)
    \/ \E r \in requests, err \in HttpErrors : error(r, err)
    \/ \E d \in TickSteps : Tick(d)
    \/ alertTimeout

Spec == Init /\ [][Next]_vars

\* the terminal event, completed response or error, of the request in
\* flight for a record
terminalEvent(item) ==
    \E r \in requests :
        /\ r.fileItem = item
        /\ \/ next(r, ResponseEvent)
           \/ \E err \in HttpErrors : error(r, err)

\* Time passes and due timers run; the transport delivers the terminal event
\* of every request. The fairness on terminal events is strong because the
\* bound on pending timers disables the callbacks now and again.
Fairness ==
    /\ WF_vars(\E d \in TickSteps : Tick(d))
    /\ WF_vars(alertTimeout)
    /\ \A item \in 1..MaxRecords : SF_vars(terminalEvent(item))

SpecFair == Spec /\ Fairness

----------------------------------------------------------------------------
(* isValidFile on its own: any file, the component untouched *)

ProbeNames ==
    { <<"a", ".", "x", "m", "l">>, <<"A", ".", "X", "M", "L">>,
      <<"a", ".", "X", "m", "L">>, <<"b", ".", "d", "a", "t">>,
      <<"B", ".", "D", "a", "T">>, <<"c", ".", "n", "r", "s">>,
      <<"c", ".", "N", "R", "S">>, <<".", "x", "m", "l">>,
      <<"x", "m", "l">>, <<"a", "x", "m", "l">>,
      <<"a", ".", "x", "m", "l", ".", "e", "x", "e">>,
      <<"a", ".", "e", "x", "e", ".", "d", "a", "t">>,
      <<"a", ".", "x", "m", "l", "x">>, <<"a", ".", "x", "m">>,
      <<"a", ".", "n", "r", "s", " ">>, <<"a", ".", "t", "x", "t">>,
      <<"a", ".", "d", "a", "t", ".">>, <<>> }

ProbeSizes == {0, 10, maxSize - 1, maxSize, maxSize + 1, 300 * 1024 * 1024}

ProbeFiles == [name : ProbeNames, size : ProbeSizes]

InitProbe ==
    /\ uploadedFiles = <<>>
    /\ objects = <<>>
    /\ requests = {}
    /\ submitted = 0
    /\ isUploading = FALSE
    /\ alertMessage = <<>>
    /\ alertType = ""
    /\ timers = <<>>
    /\ alertAge = AlertDelay
    /\ thrown = FALSE
    /\ probe \in {[file |-> f, answer |-> Undefined] : f \in ProbeFiles}

isValidFileCall ==
    /\ probe # Undefined
    /\ probe.answer = Undefined
    /\ probe' = [probe EXCEPT !.answer = Some(isValidFile(probe.file))]
    /\ UNCHANGED <<uploadedFiles, objects, requests, submitted, isUploading,
                   alertMessage, alertType, timers, alertAge, thrown>>

NextProbe == isValidFileCall

SpecProbe == InitProbe /\ [][NextProbe]_vars

----------------------------------------------------------------------------
(* Properties *)

Items == DOMAIN objects
Queued == {uploadedFiles[i] : i \in 1..Len(uploadedFiles)}
InFlight(item) == {r \in requests : r.fileItem = item}
Terminal == {"success", "error"}

\* C1 as stated: for every record that has ever been 'uploading' (a record
\* never goes back to 'pending'), progress = 100 iff status = 'success'.
C1_Original ==
    \A item \in Items :
        objects[item].status # "pending" =>
            (objects[item].progress = 100 <=> objects[item].status = "success")

\* C1 amended: every record whose status is 'success' has progress = 100
\* (the converse fails: progress can be 100 in 'uploading' and in 'error').
C1_SuccessHasFullProgress ==
    \A item \in Items :
        objects[item].status = "success" => objects[item].progress = 100

\* a record succeeded whose progress events had left another percentage
C1_Witness ==
    \E item \in Items :
        /\ objects[item].status = "success"
        /\ objects[item].progress = 100
        /\ \E other \in Items :
              objects[other].status = "uploading" /\ objects[other].progress = 100

StatusStep(item) == <<objects[item].status, objects'[item].status>>

\* C2 as stated: the only status transitions are pending -> uploading,
\* uploading -> success and uploading -> error, so nothing leaves 'success'
\* or 'error'.
C2_Original ==
    [][\A item \in Items :
          objects'[item].status # objects[item].status =>
              StatusStep(item) \in {<<"pending", "uploading">>,
                                    <<"uploading", "success">>,
                                    <<"uploading", "error">>}]_vars

\* C2 amended: the status transitions are pending -> uploading,
\* uploading -> success, uploading -> error and, by uploadFile called on
\* that very record only, success -> uploading and error -> uploading; no
\* callback, addFiles, removeFile, uploadAllFiles or uploadFile of another
\* record changes a status that is 'success' or 'error'.
C2_TerminalLeftOnlyByOwnUpload ==
    [][\A item \in Items :
          objects'[item].status # objects[item].status =>
              \/ StatusStep(item) \in {<<"pending", "uploading">>,
                                        <<"uploading", "success">>,
                                        <<"uploading", "error">>}
              \/ /\ objects[item].status \in Terminal
                 /\ objects'[item].status = "uploading"
                 /\ \E index \in 1..Len(uploadedFiles) :
                       uploadedFiles[index] = item /\ uploadFile(index)]_vars

\* a record that failed is uploading again, by the second request submitted
C2_Witness ==
    \E item \in Items :
        /\ objects[item].status = "uploading"
        /\ objects[item].error # Undefined
        /\ submitted = 2
        /\ \E r \in requests : r.fileItem = item /\ r.id = 2

\* C3: uploadFile(index) on a record that is 'uploading' submits no request
\* and changes no record, nor isUploading, nor the alert.
C3_UploadingIsNoOp ==
    [][\A index \in 1..Len(uploadedFiles) :
          (objects[uploadedFiles[index]].status = "uploading" /\ uploadFile(index))
              => UNCHANGED <<objects, requests, submitted, isUploading,
                             alertMessage, alertType, timers>>]_vars

\* uploadFile can be called on a record that is uploading, whose request,
\* the only one submitted, has delivered progress but no terminal event
C3_Witness ==
    \E index \in 1..Len(uploadedFiles) :
        /\ objects[uploadedFiles[index]].status = "uploading"
        /\ objects[uploadedFiles[index]].progress > 0
        /\ Cardinality(InFlight(uploadedFiles[index])) = 1
        /\ submitted = 1
        /\ ENABLED uploadFile(index)

QueueUntouched ==
    /\ uploadedFiles' = uploadedFiles
    /\ \A item \in Queued : objects'[item] = objects[item]
    /\ thrown' = FALSE

\* C4: once removeFile has removed a record whose request is in flight, a
\* progress, success or error callback of that request raises no error and
\* leaves the queue as it is: same records, same order, same fields.
C4_LateCallbackLeavesQueue ==
    [][\A r \in requests :
          r.fileItem \notin Queued =>
              /\ \A event \in HttpEvents : next(r, event) => QueueUntouched
              /\ \A err \in HttpErrors : error(r, err) => QueueUntouched]_vars

\* the request of a removed record has ended and written its outcome to the
\* detached object, next to a queue that still holds the other record
C4_Witness ==
    \E item \in Items \ Queued :
        /\ objects[item].status \in Terminal
        /\ InFlight(item) = {}
        /\ alertAge = 0
        /\ alertMessage \in
              {SuccessMessage(objects[item].file),
               FailureMessage(objects[item].file, "Upload failed")}
        /\ \E other \in Queued : objects[other].status = "pending"
        /\ ~thrown

\* C5: an alert shown while an earlier alert's timer is pending is cleared
\* 5000 ms after it was shown and not earlier: whenever a timer callback
\* clears a displayed alert, that alert is AlertDelay old.
C5_ClearedOnLatestSchedule ==
    [][(alertTimeout /\ alertMessage # <<>>) => alertAge = AlertDelay]_vars

Ended(r) ==
    \/ next(r, ResponseEvent)
    \/ \E err \in HttpErrors : error(r, err)

\* C6: the terminal event of one request sets isUploading to false although
\* another record is 'uploading' and its request has delivered no terminal
\* event, so such a state is reached.
C6_TerminalClearsFlagForAll ==
    [][\A r \in requests : \A sibling \in requests \ {r} :
          (Ended(r) /\ objects[sibling.fileItem].status = "uploading") =>
              /\ isUploading' = FALSE
              /\ sibling \in requests'
              /\ objects'[sibling.fileItem].status = "uploading"]_vars

\* isUploading is false while a record is uploading with its request in flight
C6_Witness ==
    /\ isUploading = FALSE
    /\ \E r \in requests : objects[r.fileItem].status = "uploading"

\* C7: right after the completed-response event of a record's request the
\* record has status 'success' and progress 100, isUploading is false and
\* the alert is of kind success and names the file.
C7_AfterResponse ==
    [][\A r \in requests :
          next(r, ResponseEvent) =>
              /\ objects'[r.fileItem].status = "success"
              /\ objects'[r.fileItem].progress = 100
              /\ isUploading' = FALSE
              /\ alertType' = "alert-success"
              /\ alertMessage' = <<"File ", objects[r.fileItem].file.name,
                                   " uploaded successfully!">>]_vars

\* a record has just succeeded: the alert, shown this instant, names its
\* file and not the other file of the queue
C7_Witness ==
    \E item \in Items :
        /\ objects[item].status = "success"
        /\ objects[item].progress = 100
        /\ isUploading = FALSE
        /\ alertType = "alert-success"
        /\ alertAge = 0
        /\ alertMessage = SuccessMessage(objects[item].file)
        /\ \E other \in Queued : objects[other].file # objects[item].file

NoMessage(err) == err.message = Undefined \/ err.message = Some("")

\* C8: right after the transport reports failure for a record's request the
\* record has status 'error', its error is the transport's message or, with
\* no message (absent or empty), 'Upload failed'; isUploading is false, an
\* error alert naming the file and the error is displayed, the queue keeps
\* its records and no request is submitted.
C8_AfterError ==
    [][\A r \in requests : \A err \in HttpErrors :
          error(r, err) =>
              /\ objects'[r.fileItem].status = "error"
              /\ NoMessage(err) => objects'[r.fileItem].error = Some("Upload failed")
              /\ ~NoMessage(err) => objects'[r.fileItem].error = err.message
              /\ isUploading' = FALSE
              /\ alertType' = "alert-error"
              /\ alertMessage' = <<"Failed to upload ",
                                   objects[r.fileItem].file.name, ": ",
                                   objects'[r.fileItem].error[1]>>
              /\ uploadedFiles' = uploadedFiles
              /\ submitted' = submitted
              /\ requests' = requests \ {r}]_vars

\* a queued record has just failed with the transport's own message
C8_Witness ==
    \E item \in Queued :
        /\ objects[item].status = "error"
        /\ objects[item].error = Some("Http failure response")
        /\ isUploading = FALSE
        /\ alertType = "alert-error"
        /\ alertAge = 0
        /\ alertMessage = FailureMessage(objects[item].file, "Http failure response")
        /\ InFlight(item) = {}
        /\ submitted = 1

StartedBy(item) == {r \in requests' \ requests : r.fileItem = item}

\* C9: uploadAllFiles submits exactly one request for each queued record
\* that is 'pending' and moves it to 'uploading'; it submits no request for
\* and changes no field of any other record; afterwards no record of the
\* queue is 'pending'.
C9_UploadAllFiles ==
    [][uploadAllFiles =>
          /\ \A item \in Queued :
                objects[item].status = "pending" =>
                    /\ objects'[item] = [objects[item] EXCEPT !.status = "uploading"]
                    /\ Cardinality(StartedBy(item)) = 1
          /\ \A item \in Items :
                (item \notin Queued \/ objects[item].status # "pending") =>
                    /\ objects'[item] = objects[item]
                    /\ StartedBy(item) = {}
          /\ submitted' - submitted =
                Cardinality({item \in Queued : objects[item].status = "pending"})
          /\ requests \subseteq requests'
          /\ ~hasPendingFiles']_vars

\* no record of the queue is pending: the second is uploading by the second
\* request submitted, at index 2, and the first has failed
C9_Witness ==
    /\ Len(uploadedFiles) = 2
    /\ objects[uploadedFiles[1]].status = "error"
    /\ objects[uploadedFiles[2]].status = "uploading"
    /\ objects[uploadedFiles[2]].progress = 0
    /\ requests = {[id |-> 2, fileItem |-> uploadedFiles[2], index |-> 2]}
    /\ ~hasPendingFiles

LowerOrUpper(c, lower, upper) == c = lower \/ c = upper

ExtensionListed(name) ==
    LET n == Len(name)
    IN  /\ n >= 4
        /\ name[n - 3] = "."
        /\ \/ /\ LowerOrUpper(name[n - 2], "x", "X")
              /\ LowerOrUpper(name[n - 1], "m", "M")
              /\ LowerOrUpper(name[n], "l", "L")
           \/ /\ LowerOrUpper(name[n - 2], "d", "D")
              /\ LowerOrUpper(name[n - 1], "a", "A")
              /\ LowerOrUpper(name[n], "t", "T")
           \/ /\ LowerOrUpper(name[n - 2], "n", "N")
              /\ LowerOrUpper(name[n - 1], "r", "R")
              /\ LowerOrUpper(name[n], "s", "S")

\* C10: isValidFile(f) is true iff the name of f ends, whatever the case of
\* its letters, with .xml, .dat or .nrs and f.size <= 209715200.
C10_ValidIffExtensionAndSize ==
    (probe # Undefined /\ probe.answer # Undefined) =>
        (probe.answer[1] <=>
            (ExtensionListed(probe.file.name) /\ probe.file.size <= 209715200))

\* a file of exactly 209715200 bytes with an upper-case extension is valid
C10_Witness ==
    /\ probe # Undefined
    /\ probe.answer = Some(TRUE)
    /\ probe.file.size = 209715200
    /\ probe.file.name = <<"A", ".", "X", "M", "L">>

RECURSIVE ValidOnly(_)
ValidOnly(files) ==
    IF files = <<>> THEN <<>>
    ELSE IF isValidFile(Head(files))
         THEN <<Head(files)>> \o ValidOnly(Tail(files))
         ELSE ValidOnly(Tail(files))

\* C11: addFiles(candidates) appends to the end of the queue exactly the
\* candidates that satisfy isValidFile, in input order, each as a new
\* record 'pending' with progress 0 and no error; the records already
\* queued keep position and fields; a candidate equal to a queued file is
\* appended all the same, so the queue grows by the number of valid
\* candidates.
C11_AddFilesAppendsValid ==
    [][\A files \in CandidateLists :
          addFiles(files) =>
              LET n == Len(uploadedFiles)
                  valid == ValidOnly(files)
              IN  /\ Len(uploadedFiles') = n + Len(valid)
                  /\ SubSeq(uploadedFiles', 1, n) = uploadedFiles
                  /\ \A item \in Items : objects'[item] = objects[item]
                  /\ \A k \in 1..Len(valid) :
                        /\ uploadedFiles'[n + k] \notin Items
                        /\ \A j \in 1..(n + k - 1) :
                              uploadedFiles'[j] # uploadedFiles'[n + k]
                        /\ objects'[uploadedFiles'[n + k]] =
                              [file |-> valid[k], progress |-> 0,
                               status |-> "pending", error |-> Undefined]]_vars

\* the queue holds a.xml, then B.DAT: two valid candidates of one call in
\* their order, or B.DAT appended behind a queued a.xml
C11_Witness ==
    /\ Len(uploadedFiles) = 2
    /\ objects[uploadedFiles[1]].file = FileA
    /\ objects[uploadedFiles[2]].file = FileB
    /\ objects[uploadedFiles[2]].status = "pending"
    /\ submitted = 0

\* a file already in the queue has been queued a second time
C11_WitnessDuplicate ==
    /\ Len(uploadedFiles) = 2
    /\ objects[uploadedFiles[1]].file = objects[uploadedFiles[2]].file
    /\ objects[uploadedFiles[1]].status = "uploading"
    /\ objects[uploadedFiles[2]].status = "pending"

\* C12: addFiles(candidates) sets exactly one alert, of kind error, if at
\* least one candidate fails isValidFile (also when all fail and nothing is
\* queued), and leaves the alert as it is if all are valid or there is none.
C12_AddFilesAlert ==
    [][\A files \in CandidateLists :
          addFiles(files) =>
              IF \E k \in 1..Len(files) : ~isValidFile(files[k])
              THEN /\ alertType' = "alert-error"
                   /\ alertMessage' = SkippedMessage
                   /\ Len(timers') = Len(timers) + 1
                   /\ alertAge' = 0
              ELSE UNCHANGED <<alertMessage, alertType, timers, alertAge>>]_vars

\* the alert for skipped files is up, just shown, and nothing is queued
C12_Witness ==
    /\ alertMessage = SkippedMessage
    /\ alertType = "alert-error"
    /\ alertAge = 0
    /\ uploadedFiles = <<>>
    /\ Len(timers) = 1

\* C13: in every reachable state the progress of every record is an integer
\* from 0 to 100, whatever progress events with loaded >= 0 have been
\* delivered, among them events whose total is absent or 0.
C13_ProgressInRange ==
    \A item \in Items : objects[item].progress \in 0..100

\* C14: in every reachable state a record has an error message only if its
\* status is 'error'; a record that failed and is uploaded again has none.
C14_ErrorOnlyWithErrorStatus ==
    \A item \in Items :
        objects[item].error # Undefined => objects[item].status = "error"

\* C15: an alert set by showAlert at time T is no longer displayed after
\* T + 5000 ms unless a later showAlert replaced it. alertAge is the time
\* since the latest showAlert: while a message is displayed, the timer
\* started with it is pending and is due exactly when the age reaches 5000
\* ms, and time does not pass a due timer (Tick), so that by then
\* alertTimeout has cleared message and kind.
C15_AlertGoneAfterDelay ==
    (alertMessage # <<>> \/ alertType # "") =>
        /\ timers # <<>>
        /\ alertAge + timers[Len(timers)] = AlertDelay
        /\ alertAge = AlertDelay => (Head(timers) = 0 /\ ENABLED alertTimeout)

\* an upload has succeeded; its alert was shown, 5000 ms have passed and the
\* alert is cleared, no timer left
C15_Witness ==
    /\ \E item \in Items : objects[item].status = "success"
    /\ requests = {}
    /\ submitted = 1
    /\ alertMessage = <<>>
    /\ alertType = ""
    /\ timers = <<>>
    /\ alertAge = AlertDelay

\* C16: removeFile(index), for an index of the queue, removes exactly the
\* record at that index whatever its status, keeps every other record with
\* its fields and in the same relative order, and does not cancel the
\* request of the removed record: the request stays in flight and its
\* terminal event can still be delivered when the record is out of the queue.
C16_RemoveFile ==
    /\ [][\A index \in 1..Len(uploadedFiles) :
            removeFile(index) =>
                /\ Len(uploadedFiles') = Len(uploadedFiles) - 1
                /\ \A i \in 1..(index - 1) : uploadedFiles'[i] = uploadedFiles[i]
                /\ \A i \in index..(Len(uploadedFiles) - 1) :
                      uploadedFiles'[i] = uploadedFiles[i + 1]
                /\ objects' = objects
                /\ requests' = requests
                /\ isUploading' = isUploading]_vars
    /\ [](\A r \in requests :
             (r.fileItem \notin Queued /\ TimerRoom) =>
                 /\ ENABLED next(r, ResponseEvent)
                 /\ \A err \in HttpErrors : ENABLED error(r, err))

\* a record was removed while its request was in flight: the object is out
\* of the queue, still 'uploading', its request still pending, and the
\* other record is the whole queue
C16_Witness ==
    \E item \in Items \ Queued :
        /\ objects[item].status = "uploading"
        /\ Cardinality(InFlight(item)) = 1
        /\ Len(uploadedFiles) = 1
        /\ objects[uploadedFiles[1]].status = "pending"
        /\ isUploading

\* what a callback of request r may change: fields of r's own record only
OnlyOwnRecord(r) ==
    /\ uploadedFiles' = uploadedFiles
    /\ DOMAIN objects' = DOMAIN objects
    /\ \A item \in Items \ {r.fileItem} : objects'[item] = objects[item]
    /\ objects'[r.fileItem].file = objects[r.fileItem].file

\* C17: a progress, success or error callback of the request started for
\* record r changes status, progress and error of r only, also when
\* removeFile or addFiles has moved r to another index since the call of
\* uploadFile(index): never a field of the record now at the original index
\* or of any other record, never the membership or order of the queue.
C17_CallbackWritesOwnRecord ==
    [][\A r \in requests :
          /\ \A event \in HttpEvents : next(r, event) => OnlyOwnRecord(r)
          /\ \A err \in HttpErrors : error(r, err) => OnlyOwnRecord(r)]_vars

\* the record uploaded from index 1 (the second of the queue) is now the
\* first, after the removal of the one before it, and carries the progress
\* written by its request, which is still in flight
C17_Witness ==
    \E r \in requests :
        /\ r.index = 2
        /\ uploadedFiles = <<r.fileItem>>
        /\ Cardinality(Items) = 2
        /\ objects[r.fileItem].status = "uploading"
        /\ objects[r.fileItem].progress > 0
        /\ \A item \in Items \ {r.fileItem} :
              objects[item].status = "pending" /\ objects[item].progress = 0

\* C18: in every reachable state each record, queued or removed, is
\* 'uploading' if and only if exactly one request submitted for it has not
\* delivered its terminal event, and no record has two requests in flight,
\* also after the re-upload of a 'success' or 'error' record.
C18_UploadingIffOneRequest ==
    \A item \in Items :
        Cardinality(InFlight(item)) =
            IF objects[item].status = "uploading" THEN 1 ELSE 0

\* the only record has been uploaded with success and is uploaded again:
\* the first request has ended, the second is the one in flight
C18_Witness ==
    /\ Cardinality(Items) = 1
    /\ submitted = 2
    /\ \A item \in Items :
          /\ objects[item].status = "uploading"
          /\ objects[item].error = Undefined
          /\ \E r \in requests : r.id = 2 /\ InFlight(item) = {r}

\* C19: in every reachable state, if isUploading is true then at least one
\* submitted request has not delivered its terminal event; when no request
\* is in flight, at the start and after the last terminal event,
\* isUploading is false.
C19_FlagImpliesRequest ==
    isUploading => requests # {}

\* one upload has ended and another one is in flight: the flag is true next
\* to exactly one pending request
C19_Witness ==
    /\ isUploading
    /\ Cardinality(requests) = 1
    /\ submitted = 2
    /\ \E item \in Items : objects[item].status \in Terminal

\* the last outstanding terminal event has arrived after two uploads: no
\* request in flight and the flag is false
C19_WitnessIdle ==
    /\ ~isUploading
    /\ requests = {}
    /\ submitted = 2
    /\ Cardinality(Items) = 2
    /\ \A item \in Items : objects[item].status \in Terminal

\* C20: if the transport eventually delivers the terminal event of every
\* submitted request, every record that enters 'uploading' eventually
\* reaches 'success' or 'error', whatever uploads, additions and removals
\* are interleaved.
C20_UploadingEnds ==
    \A item \in 1..MaxRecords :
        (item \in Items /\ objects[item].status = "uploading")
            ~> (item \in Items /\ objects[item].status \in Terminal)

\* both records have been uploaded and both uploads have ended, one with
\* success and one with an error, the second record being out of the queue
C20_Witness ==
    /\ requests = {}
    /\ submitted = 2
    /\ Cardinality(Items) = 2
    /\ \E item \in Queued : objects[item].status = "success"
    /\ \E item \in Items \ Queued : objects[item].status = "error"

====
